---- MODULE Spec2Model ----
(***************************************************************************)
(* Model of the rate-limited, multi-tier cache of MCP-Bets:                *)
(*   - RateLimiter   (services/ingestion/sportsdataio_client.py)           *)
(*   - CacheManager  (services/cache/cache_manager.py)                     *)
(*   - SportsDataIOClient._request (the same file as RateLimiter)          *)
(*   - CachedSportsDataIOClient (services/cache/cached_client.py)          *)
(*                                                                         *)
(* Time is discrete.  One clock tick is 1/TicksPerSecond of a second; the  *)
(* float `tokens` of the limiter is kept in units of 1/TicksPerSecond of a *)
(* token, so that `elapsed * requests_per_second` is exact.                *)
(***************************************************************************)
EXTENDS Integers, Sequences, FiniteSets, TLC

\* ------------------------------------------------------------------ bounds
NumProcs == 2
MaxTime == 6
MaxMonth == 1
MaxCalls == 11
TicksPerSecond == 2
MaxCancelCalls == 4
MaxRequestCalls == 4

MaxOps == 2
NumTasks == 2
MaxClockSteps == 4
ClockStep == 300

MaxPartLen == 2
MaxParts == 2
MaxViewOps == 3

Procs == 1..NumProcs
Tasks == 1..NumTasks

\* Construction parameters <<requests_per_second, burst_size, requests_per_month>>
LimiterConfigs == { <<2, 5, 10>>, <<1, 1, 2>> }

VARIABLES
    \* wall clock
    now,                \* time.time(), in ticks
    month,              \* calendar month (UTC) of the wall clock
    \* RateLimiter fields
    requests_per_second,
    requests_per_month,
    burst_size,
    tokens,             \* in 1/TicksPerSecond of a token
    last_update,
    monthly_requests,
    month_start,        \* [m |-> month, us |-> sub-second part]
    lock_locked,        \* asyncio.Lock._locked
    lock_waiters,       \* asyncio.Lock._waiters (FIFO)
    \* callers of acquire()
    pc,                 \* "idle" | "waitlock" | "sleeping" | "ok" | "raised"
                        \* | "cancelled"
    wake_at,            \* deadline of the caller's asyncio.sleep
    \* history of the calls (observers, never read by the limiter)
    n_calls,            \* acquire() calls made so far
    n_admitted,         \* acquire() calls that have taken the lock so far
    hold_t0,            \* clock when the current lock holder took the lock
    last_done,          \* the call that completed last
    passed_in_month,    \* calls that passed the quota check in this calendar month
    ok_hist            \* the returns of acquire() so far: the clock at the
                        \* last one, and the largest excess, over the intervals
                        \* that end there, of the returns in the interval over
                        \* what the refill rate yields in its length

rlVars == << now, month, requests_per_second, requests_per_month, burst_size,
             tokens, last_update, monthly_requests, month_start, lock_locked,
             lock_waiters, pc, wake_at, n_calls, n_admitted, hold_t0,
             last_done, passed_in_month, ok_hist >>

VARIABLES
    \* CacheManager and its two tiers
    utcnow,             \* datetime.now(timezone.utc), in seconds
    redis,              \* fast tier: key -> NoEntry or [val, exp]
    db,                 \* cache_entries table: key -> NoRow or a CacheEntry
    stats,              \* CacheManager.stats
    \* history of the operations (observers, never read by the manager)
    n_ops,              \* CacheManager operations completed so far
    last_op,            \* the operation completed last
    \* the get() coroutines that share one manager
    task                \* coroutine -> where it is suspended and its locals

cacheVars == << utcnow, redis, db, stats, n_ops, last_op, task >>

VARIABLES
    \* SportsDataIOClient._request, per caller
    req,                \* the request in hand: its state, the attempts made,
                        \* the HTTP calls sent, what the caller received
    \* build_cache_key and parse_cache_key
    key_io,             \* the arguments, the key built, the parts parsed
    \* CachedSportsDataIOClient: the views it caches
    views,              \* view key -> whether each tier holds it
    \* history of the facade calls (observers)
    n_view_ops,         \* facade calls completed so far
    last_inv            \* the invalidate_week_data call completed last

facadeVars == << key_io, views, n_view_ops, last_inv >>
appVars == << req, facadeVars >>

vars == << rlVars, cacheVars, appVars >>

NoCall == [no |-> 0, res |-> "none", slept |-> FALSE, t0 |-> 0, dt |-> 0, m |-> 0]

Min(a, b) == IF a <= b THEN a ELSE b

\* -------------------------------------------------------------- the clock

\* datetime.now(timezone.utc).replace(day=1, hour=0, minute=0, second=0):
\* year/month and the sub-second part survive, the rest is zeroed.
MonthStamp == [m |-> month, us |-> now % TicksPerSecond]

\* datetime comparison a > b on such stamps
StampAfter(a, b) == \/ a.m > b.m
                    \/ a.m = b.m /\ a.us > b.us

\* ------------------------------------------------------------ RateLimiter

\* Refill without the cap at burst_size
RefillUncapped(tok, elapsed) == tok + elapsed * requests_per_second

\* Refill at twice the rate
RefillDoubleRate(tok, elapsed) ==
    Min(burst_size * TicksPerSecond, tok + 2 * elapsed * requests_per_second)

\* no refill at all
RefillNever(tok, elapsed) == tok

\* min(burst_size, tokens + elapsed * requests_per_second)
Refill(tok, elapsed) ==
    Min(burst_size * TicksPerSecond, tok + elapsed * requests_per_second)

\* (1 - tokens) / requests_per_second, in ticks, rounded up to the tick grid
WaitTime(tok) ==
    LET need == TicksPerSecond - tok
    IN  (need + requests_per_second - 1) \div requests_per_second

\* the monthly window after lines 61-65
WindowReset == StampAfter(MonthStamp, month_start)

\* The quota check off by one: > instead of >=
QuotaReachedStrict(count) == count > requests_per_month

\* self.monthly_requests >= self.requests_per_month
QuotaReached(count) == count >= requests_per_month

Max(a, b) == IF a >= b THEN a ELSE b

\* one more return of acquire(), now.  For returns at t_1 <= ... <= t_j the
\* excess of the interval [t_i, t_j] is (j - i + 1) - (t_j - t_i) * rate;
\* the largest over i is 1 + max(0, the largest at t_(j-1), less what the
\* rate yields between t_(j-1) and t_j).  In 1/TicksPerSecond of a call.
Returned(h) ==
    [last   |-> now,
     excess |-> TicksPerSecond
                + Max(0, h.excess - (now - h.last) * requests_per_second)]

\* the record of a call of p completing now with outcome res
Done(p, res, no, t0) ==
    [no |-> no, res |-> res, slept |-> (pc[p] = "sleeping"),
     t0 |-> t0, dt |-> now - t0, m |-> month]

\* lines 84-98: the wait loop and the consumption, entered with the bucket
\* refilled to tok and the monthly counter at count
TokenPhase(p, tok, count, no, t0) ==
    /\ last_update' = now
    /\ IF tok < TicksPerSecond
       THEN /\ tokens' = tok
            /\ monthly_requests' = count
            /\ pc' = [pc EXCEPT ![p] = "sleeping"]
            /\ wake_at' = [wake_at EXCEPT ![p] = now + WaitTime(tok)]
            /\ lock_locked' = TRUE
            /\ UNCHANGED << last_done, ok_hist >>
       ELSE /\ tokens' = tok - TicksPerSecond
            /\ monthly_requests' = count + 1
            /\ pc' = [pc EXCEPT ![p] = "ok"]
            /\ wake_at' = [wake_at EXCEPT ![p] = 0]
            /\ lock_locked' = FALSE
            /\ last_done' = Done(p, "ok", no, t0)
            /\ ok_hist' = Returned(ok_hist)

\* lines 60-98 up to the first suspension, run by p once it holds the lock
AcquireBody(p) ==
    LET count == IF WindowReset THEN 0 ELSE monthly_requests
    IN  /\ month_start' = IF WindowReset THEN MonthStamp ELSE month_start
        /\ n_admitted' = n_admitted + 1
        /\ hold_t0' = now
        /\ IF QuotaReached(count)
           THEN /\ monthly_requests' = count
                /\ pc' = [pc EXCEPT ![p] = "raised"]
                /\ lock_locked' = FALSE
                /\ last_done' = Done(p, "raised", n_admitted + 1, now)
                /\ UNCHANGED << tokens, last_update, wake_at, passed_in_month,
                                ok_hist >>
           ELSE /\ passed_in_month' = passed_in_month + 1
                /\ TokenPhase(p, Refill(tokens, now - last_update), count,
                             n_admitted + 1, now)

\* A lock that admits a caller whenever nobody is queued, held or not
LockFreeIgnoringHolder == lock_waiters = << >>

\* asyncio.Lock.acquire takes the lock at once only when it is free and
\* nobody is queued for it
LockFree == ~lock_locked /\ lock_waiters = << >>

\* acquire() is invoked by p: lines 59-98 up to the first suspension
AcquireCalled(p) ==
    /\ pc[p] \in {"idle", "ok", "raised", "cancelled"}
    /\ n_calls < MaxCalls
    /\ n_calls' = n_calls + 1
    /\ IF LockFree
       THEN /\ AcquireBody(p)
            /\ UNCHANGED lock_waiters
       ELSE /\ pc' = [pc EXCEPT ![p] = "waitlock"]
            /\ lock_waiters' = Append(lock_waiters, p)
            /\ UNCHANGED << tokens, last_update, monthly_requests, month_start,
                            lock_locked, wake_at, n_admitted, hold_t0,
                            last_done, passed_in_month, ok_hist >>
    /\ UNCHANGED << now, month, requests_per_second, requests_per_month,
                    burst_size, cacheVars, facadeVars >>

\* a caller invokes acquire()
Call(p) == AcquireCalled(p) /\ UNCHANGED req

\* the lock is handed to p, the head of its queue: lines 60-98 up to the
\* first suspension
AcquireEntered(p) ==
    /\ pc[p] = "waitlock"
    /\ ~lock_locked
    /\ lock_waiters # << >>
    /\ Head(lock_waiters) = p
    /\ lock_waiters' = Tail(lock_waiters)
    /\ AcquireBody(p)
    /\ UNCHANGED << now, month, requests_per_second, requests_per_month,
                    burst_size, n_calls, cacheVars, facadeVars >>

\* the caller at the head of the lock queue is admitted once the lock is free
Enter(p) == AcquireEntered(p) /\ UNCHANGED req

\* asyncio.sleep(wait_time) returns; lines 88-98.  A timer that fires a
\* fraction of a tick before the deadline is seen one tick early.
AcquireWoken(p) ==
    /\ pc[p] = "sleeping"
    /\ now + 1 >= wake_at[p]
    /\ TokenPhase(p, Refill(tokens, now - last_update), monthly_requests,
                 n_admitted, hold_t0)
    /\ UNCHANGED << now, month, requests_per_second, requests_per_month,
                    burst_size, month_start, lock_waiters, n_calls, n_admitted,
                    hold_t0, passed_in_month, cacheVars, facadeVars >>

\* the sleep of p in acquire() ends
Wake(p) == AcquireWoken(p) /\ UNCHANGED req

\* a lock that stays held when the block is left by an exception
LockKeptOnExit == TRUE

\* asyncio.Lock._locked once `async with self._lock` has been left
LockOnExit == FALSE

\* the caller's task is cancelled during asyncio.sleep, line 86:
\* CancelledError leaves the loop and the `async with` block
Cancel(p) ==
    /\ pc[p] = "sleeping"
    /\ pc' = [pc EXCEPT ![p] = "cancelled"]
    /\ wake_at' = [wake_at EXCEPT ![p] = 0]
    /\ lock_locked' = LockOnExit
    /\ UNCHANGED << now, month, requests_per_second, requests_per_month,
                    burst_size, tokens, last_update, monthly_requests,
                    month_start, lock_waiters, n_calls, n_admitted, hold_t0,
                    last_done, passed_in_month, ok_hist, cacheVars, appVars >>

\* the event loop has something to run now: a timer that is due, or the
\* lock to hand to the head of its queue
AnyDue ==
    \/ \E p \in Procs : pc[p] = "sleeping" /\ now >= wake_at[p]
    \/ ~lock_locked /\ lock_waiters # << >>

\* the wall clock goes on past MaxTime for as long as a caller is suspended
\* in acquire(): time enough for every caller to take its turn
LateTick ==
    /\ ~AnyDue
    /\ now >= MaxTime
    /\ now < MaxTime + NumProcs * TicksPerSecond
    /\ \E p \in Procs : pc[p] \in {"waitlock", "sleeping"}
    /\ now' = now + 1
    /\ UNCHANGED << month, requests_per_second, requests_per_month, burst_size,
                    tokens, last_update, monthly_requests, month_start,
                    lock_locked, lock_waiters, pc, wake_at, n_calls,
                    n_admitted, hold_t0, last_done, passed_in_month,
                    ok_hist, cacheVars, appVars >>

\* the wall clock advances by one tick, within the month
Tick ==
    /\ now < MaxTime
    /\ now' = now + 1
    /\ UNCHANGED << month, requests_per_second, requests_per_month, burst_size,
                    tokens, last_update, monthly_requests, month_start,
                    lock_locked, lock_waiters, pc, wake_at, n_calls,
                    n_admitted, hold_t0, last_done, passed_in_month,
                    ok_hist, cacheVars, appVars >>

\* the wall clock advances by one tick into the next calendar month
MonthRollover ==
    /\ now < MaxTime
    /\ month < MaxMonth
    /\ now' = now + 1
    /\ month' = month + 1
    /\ passed_in_month' = 0
    /\ UNCHANGED << requests_per_second, requests_per_month, burst_size,
                    tokens, last_update, monthly_requests, month_start,
                    lock_locked, lock_waiters, pc, wake_at, n_calls,
                    n_admitted, hold_t0, last_done, ok_hist, cacheVars, appVars >>

\* ----------------------------------------------------------- CacheManager

None == "None"
\* the nil reply of Redis
Nil == << >>
NoEntry == [val |-> Nil, exp |-> 0]
NoRow == [data |-> None, cached_at |-> 0, expires_at |-> 0, data_type |-> None]

\* cache keys, as the ordered parts they are built from
Keys == { << "props", "week" >>, << "odds", "week" >> }
\* JSON documents handed to set() or returned by the upstream fetch
Values == { "v1", "v2" }
\* the data types the operations are called with
DataTypes == { "odds", "props" }
\* fetch_fn: not supplied, raising, or returning a document
NoFetch == "NoFetch"
FetchError == "FetchError"
Fetches == { NoFetch, FetchError } \cup Values

\* CacheManager.HOT_TTL (seconds)
HOT_TTL == [ odds |-> 300, props |-> 900, injuries |-> 3600,
             schedules |-> 21600, teams |-> 86400, players |-> 43200,
             stats |-> 86400, news |-> 1800 ]

\* CacheManager.WARM_TTL (seconds)
WARM_TTL == [ odds |-> 900, props |-> 3600, injuries |-> 21600,
              schedules |-> 86400, teams |-> 604800, players |-> 259200,
              stats |-> 604800, news |-> 7200 ]

\* json.dumps(data, default=str) and json.loads
json_dumps(v) == << "json", v >>
json_loads(text) == text[2]

\* what the Redis server answers to GET key
RedisGet(r, k) ==
    IF r[k] # NoEntry /\ utcnow < r[k].exp THEN r[k].val ELSE Nil

\* `await` applied to the plain return value of a command of the client that
\* RedisManager creates with redis.from_url (the synchronous redis.Redis):
\* the command has run, the value is not awaitable, TypeError is raised
AwaitCommand(value) == [exc |-> "TypeError", val |-> Nil]

\* await self.redis.<command>(...): the connection fails, or the command
\* runs and its result is awaited
RedisReply(conn_error, value) ==
    IF conn_error THEN [exc |-> "ConnectionError", val |-> Nil]
    ELSE AwaitCommand(value)

\* _get_from_hot_cache without its try/except: what Redis raises comes out
HotCacheGetUncaught(r, k, conn_error) ==
    LET reply == RedisReply(conn_error, RedisGet(r, k))
    IN  IF reply.exc # None THEN reply.exc
        ELSE IF reply.val # Nil THEN json_loads(reply.val) ELSE None

\* CacheManager._get_from_hot_cache
HotCacheGet(r, k, conn_error) ==
    LET reply == RedisReply(conn_error, RedisGet(r, k))
    IN  IF reply.exc # None THEN None
        ELSE IF reply.val # Nil THEN json_loads(reply.val) ELSE None

\* CacheEntry.is_expired with the comparison inverted
is_expired_inverted(entry) == utcnow < entry.expires_at

\* CacheEntry.is_expired
is_expired(entry) == utcnow > entry.expires_at

\* where the persistent store fails during an operation, if it does
DbErrors == { "none", "read", "write" }

\* _get_from_warm_cache with the store's error caught and turned into a miss
WarmCacheGetSwallowing(d, k, de) ==
    IF de = "read" THEN [exc |-> None, data |-> None, db |-> d]
    ELSE IF d[k] = NoRow THEN [exc |-> None, data |-> None, db |-> d]
    ELSE IF is_expired(d[k])
         THEN [exc |-> None, data |-> None, db |-> [d EXCEPT ![k] = NoRow]]
    ELSE [exc |-> None, data |-> d[k].data, db |-> d]

\* CacheManager._get_from_warm_cache: what it raises, the data it returns
\* and the table it leaves; the SELECT fails when de = "read"
WarmCacheGet(d, k, de) ==
    IF de = "read" THEN [exc |-> "PersistentTierError", data |-> None, db |-> d]
    ELSE IF d[k] = NoRow THEN [exc |-> None, data |-> None, db |-> d]
    ELSE IF is_expired(d[k])
         THEN [exc |-> None, data |-> None, db |-> [d EXCEPT ![k] = NoRow]]
    ELSE [exc |-> None, data |-> d[k].data, db |-> d]

\* a SETEX whose entry lives for the two durations of the data type together
HotCacheSetLong(r, k, data, t, conn_error) ==
    IF conn_error THEN r
    ELSE [r EXCEPT ![k] = [val |-> json_dumps(data),
                           exp |-> utcnow + HOT_TTL[t] + WARM_TTL[t]]]

\* CacheManager._set_hot_cache: SETEX runs unless the connection fails, and
\* whatever is raised is swallowed
HotCacheSet(r, k, data, t, conn_error) ==
    IF conn_error THEN r
    ELSE [r EXCEPT ![k] = [val |-> json_dumps(data), exp |-> utcnow + HOT_TTL[t]]]

\* CacheManager._set_warm_cache
WarmCacheSet(d, k, data, t) ==
    LET expires_at == utcnow + WARM_TTL[t]
    IN  IF d[k] # NoRow
        THEN [d EXCEPT ![k] = [@ EXCEPT !.data = data, !.cached_at = utcnow,
                                        !.expires_at = expires_at]]
        ELSE [d EXCEPT ![k] = [data |-> data, cached_at |-> utcnow,
                               expires_at |-> expires_at, data_type |-> t]]

\* self.stats["total_requests"] += 2
CountRequestTwice(s) == [s EXCEPT !.total_requests = @ + 2]

\* self.stats["total_requests"] is left alone
CountRequestNever(s) == s

\* self.stats["total_requests"] += 1
CountRequest(s) == [s EXCEPT !.total_requests = @ + 1]

\* CacheManager.get, lines 128-155: what it returns or raises, the path it
\* took, and the counters and tiers it leaves.  e1 and e2 tell whether the
\* connection to Redis fails on the lookup and on the write, de where the
\* persistent store fails.
GetResult(k, t, f, e1, e2, de) ==
    LET s1   == CountRequest(stats)
        hot  == HotCacheGet(redis, k, e1)
        warm == WarmCacheGet(db, k, de)
    IN  IF hot # None
        THEN [result |-> hot, path |-> "hot", fetched |-> FALSE,
              stats |-> [s1 EXCEPT !.hot_hits = @ + 1],
              redis |-> redis, db |-> db]
        ELSE IF warm.exc # None
        THEN [result |-> warm.exc, path |-> "raised", fetched |-> FALSE,
              stats |-> s1, redis |-> redis, db |-> warm.db]
        ELSE IF warm.data # None
        THEN [result |-> warm.data, path |-> "warm", fetched |-> FALSE,
              stats |-> [s1 EXCEPT !.warm_hits = @ + 1],
              redis |-> HotCacheSet(redis, k, warm.data, t, e2),
              db |-> warm.db]
        ELSE IF f = NoFetch
        THEN [result |-> None, path |-> "absent", fetched |-> FALSE,
              stats |-> s1, redis |-> redis, db |-> warm.db]
        ELSE IF f = FetchError
        THEN [result |-> "UpstreamError", path |-> "raised", fetched |-> TRUE,
              stats |-> [s1 EXCEPT !.cold_hits = @ + 1],
              redis |-> redis, db |-> warm.db]
        ELSE IF de = "write"
        THEN [result |-> "PersistentTierError", path |-> "raised",
              fetched |-> TRUE,
              stats |-> [s1 EXCEPT !.cold_hits = @ + 1],
              redis |-> HotCacheSet(redis, k, f, t, e2), db |-> warm.db]
        ELSE [result |-> f, path |-> "cold", fetched |-> TRUE,
              stats |-> [s1 EXCEPT !.cold_hits = @ + 1],
              redis |-> HotCacheSet(redis, k, f, t, e2),
              db |-> WarmCacheSet(warm.db, k, f, t)]

\* what the tiers held for k when the operation started
HotWas(k) == RedisGet(redis, k) # Nil
WarmWas(k) == IF db[k] = NoRow THEN "none"
              ELSE IF is_expired(db[k]) THEN "expired" ELSE "fresh"

OpRecord(op, k, t, arg, e1, e2, result, path, fetched) ==
    [op |-> op, key |-> k, data_type |-> t, arg |-> arg,
     lookup_failed |-> e1, write_failed |-> e2,
     result |-> result, path |-> path, fetched |-> fetched,
     hot_was |-> HotWas(k), warm_was |-> WarmWas(k),
     db_error |-> "none", count |-> 0]

NoOp == [op |-> "none", key |-> << >>, data_type |-> None, arg |-> None,
         lookup_failed |-> FALSE, write_failed |-> FALSE,
         result |-> None, path |-> "none", fetched |-> FALSE,
         hot_was |-> FALSE, warm_was |-> "none",
         db_error |-> "none", count |-> 0]

\* CacheManager.get(key, data_type, fetch_fn)
Get(k, t, f, e1, e2, de) ==
    /\ n_ops < MaxOps
    /\ LET g == GetResult(k, t, f, e1, e2, de)
       IN  /\ stats' = g.stats
           /\ redis' = g.redis
           /\ db' = g.db
           /\ last_op' = [OpRecord("get", k, t, f, e1, e2, g.result, g.path,
                                   g.fetched) EXCEPT !.db_error = de]
    /\ n_ops' = n_ops + 1
    /\ UNCHANGED << utcnow, rlVars, task, appVars >>

\* CacheManager.set(key, data, data_type), lines 171-172
Set(k, v, t, e2) ==
    /\ n_ops < MaxOps
    /\ redis' = HotCacheSet(redis, k, v, t, e2)
    /\ db' = WarmCacheSet(db, k, v, t)
    /\ last_op' = OpRecord("set", k, t, v, FALSE, e2, None, "set", FALSE)
    /\ n_ops' = n_ops + 1
    /\ UNCHANGED << utcnow, stats, rlVars, task, appVars >>

\* CacheManager.delete(key), lines 181-195: `await self.redis.delete(key)`
\* raises before the table is touched
Delete(k, e1) ==
    /\ n_ops < MaxOps
    /\ LET reply == RedisReply(e1, IF HotWas(k) THEN 1 ELSE 0)
       IN  /\ redis' = IF e1 THEN redis ELSE [redis EXCEPT ![k] = NoEntry]
           /\ IF reply.exc # None
              THEN /\ db' = db
                   /\ last_op' = OpRecord("delete", k, None, None, e1, FALSE,
                                          reply.exc, "raised", FALSE)
              ELSE /\ db' = [db EXCEPT ![k] = NoRow]
                   /\ last_op' = OpRecord("delete", k, None, None, e1, FALSE,
                                          None, "deleted", FALSE)
    /\ n_ops' = n_ops + 1
    /\ UNCHANGED << utcnow, stats, rlVars, task, appVars >>

\* the patterns callers clear by, "props:*" and "odds:*", as the parts
\* before the star
Patterns == { << "props" >>, << "odds" >> }

\* the glob of Redis KEYS and the LIKE of the table, the star (to LIKE, the
\* percent sign) closing the pattern: the key starts with the parts before it
Matches(pat, k) == Len(pat) <= Len(k) /\ SubSeq(k, 1, Len(pat)) = pat

\* what an operation that is not about one key leaves in last_op
BulkRecord(op, arg, e1, result, path, count) ==
    [NoOp EXCEPT !.op = op, !.arg = arg, !.lookup_failed = e1,
                 !.result = result, !.path = path, !.count = count]

\* CacheManager.clear_by_pattern, lines 207-228
ClearByPattern(pat, e1) ==
    /\ n_ops < MaxOps
    /\ LET hot_keys  == { k \in Keys : HotWas(k) /\ Matches(pat, k) }
           warm_keys == { k \in Keys : db[k] # NoRow /\ Matches(pat, k) }
           reply     == RedisReply(e1, hot_keys)
       IN  IF reply.exc # None
           THEN /\ redis' = redis
                /\ db' = db
                /\ last_op' = BulkRecord("clear", pat, e1, reply.exc, "raised", 0)
           ELSE /\ redis' = [k \in Keys |->
                                IF k \in hot_keys THEN NoEntry ELSE redis[k]]
                /\ db' = [k \in Keys |->
                             IF k \in warm_keys THEN NoRow ELSE db[k]]
                /\ last_op' = BulkRecord("clear", pat, e1, None, "cleared",
                                  Cardinality(hot_keys) + Cardinality(warm_keys))
    /\ n_ops' = n_ops + 1
    /\ UNCHANGED << utcnow, stats, rlVars, task, appVars >>

\* CacheManager.get_stats, lines 237-278
GetStats(e1) ==
    /\ n_ops < MaxOps
    /\ LET reply == RedisReply(e1, "info")
           rows  == Cardinality({ k \in Keys : db[k] # NoRow })
       IN  last_op' =
              IF stats.total_requests = 0
              THEN BulkRecord("get_stats", None, FALSE, None, "zeros", 0)
              ELSE IF reply.exc # None
              THEN BulkRecord("get_stats", None, e1, reply.exc, "raised", 0)
              ELSE BulkRecord("get_stats", None, e1, None, "report", rows)
    /\ n_ops' = n_ops + 1
    /\ UNCHANGED << utcnow, redis, db, stats, rlVars, task, appVars >>

\* cleanup_expired selecting the records with expires_at <= now
ExpiredEntriesInclusive(d) ==
    { k \in Keys : d[k] # NoRow /\ d[k].expires_at <= utcnow }

\* select(CacheEntry).where(CacheEntry.expires_at < now), line 289
ExpiredEntries(d) ==
    { k \in Keys : d[k] # NoRow /\ d[k].expires_at < utcnow }

\* CacheManager.cleanup_expired, lines 286-298
CleanupExpired ==
    /\ n_ops < MaxOps
    /\ LET expired_entries == ExpiredEntries(db)
       IN  /\ db' = [k \in Keys |->
                        IF k \in expired_entries THEN NoRow ELSE db[k]]
           /\ last_op' = BulkRecord("cleanup_expired", None, FALSE, None,
                                    "cleaned", Cardinality(expired_entries))
    /\ n_ops' = n_ops + 1
    /\ UNCHANGED << utcnow, redis, stats, rlVars, task, appVars >>

\* RedisManager._create_client: the client, or the ConnectionError of ping()
CreateClient(down) ==
    IF down THEN [exc |-> "ConnectionError", client |-> None]
    ELSE [exc |-> None, client |-> "client"]

\* RedisManager._test_connection
TestConnection(instance, down) == instance # None /\ ~down

\* RedisManager.get_client; instance is RedisManager._instance
GetClient(instance, down) ==
    IF instance = None \/ ~TestConnection(instance, down)
    THEN CreateClient(down)
    ELSE [exc |-> None, client |-> instance]

\* CacheManager(db): a caller builds a manager, Redis being down or up; the
\* manager it gets takes the place of the one it had, with counters of its own
NewManager(instance, down) ==
    /\ n_ops < MaxOps
    /\ LET c == GetClient(instance, down)
       IN  IF c.exc # None
           THEN /\ stats' = stats
                /\ last_op' = BulkRecord("init", instance, down, c.exc, "raised", 0)
           ELSE /\ stats' = [hot_hits |-> 0, warm_hits |-> 0, cold_hits |-> 0,
                             total_requests |-> 0]
                /\ last_op' = BulkRecord("init", instance, down, None, "built", 0)
    /\ n_ops' = n_ops + 1
    /\ UNCHANGED << utcnow, redis, db, rlVars, task, appVars >>

\* the clock of the cache advances; Redis drops the keys whose TTL has run out
ClockAdvance ==
    /\ utcnow < MaxClockSteps * ClockStep
    /\ utcnow' = utcnow + ClockStep
    /\ redis' = [k \in Keys |->
                    IF redis[k] # NoEntry /\ redis[k].exp <= utcnow'
                    THEN NoEntry ELSE redis[k]]
    /\ last_op' = NoOp
    /\ UNCHANGED << db, stats, n_ops, rlVars, task, appVars >>

\* the cache_entries table a new manager may find: empty, or holding one
\* odds record written just now by an earlier manager
SeedTables ==
    LET empty == [k \in Keys |-> NoRow]
    IN  { empty } \cup
        { [empty EXCEPT ![k] = [data |-> "v1", cached_at |-> 0,
                                expires_at |-> WARM_TTL["odds"],
                                data_type |-> "odds"]] :
            k \in { << "odds", "week" >> } }

\* where a get() coroutine stands before it is called
IdleTask ==
    [pc |-> "idle", key |-> << >>, data_type |-> None, fetch_fn |-> NoFetch,
     replied |-> FALSE, row |-> NoRow, exc |-> None, data |-> None,
     pending |-> "none", new_row |-> NoRow, last_write |-> FALSE,
     path |-> "none", result |-> None, seen_ops |-> 0]

\* CacheManager.__init__, lines 93-102
InitCache ==
    /\ task = [t \in Tasks |-> IdleTask]
    /\ utcnow = 0
    /\ redis = [k \in Keys |-> NoEntry]
    /\ db \in SeedTables
    /\ stats = [hot_hits |-> 0, warm_hits |-> 0, cold_hits |-> 0,
                total_requests |-> 0]
    /\ n_ops = 0
    /\ last_op = NoOp

\* --------------------------------------- get() coroutines on one manager
\* A coroutine runs alone from one await to the next.  The awaits on Redis
\* do not suspend (the command has run when the await raises); the awaits
\* on the table and on fetch_fn do.

\* a counter is set to one
BumpToOne(s, counter) == [s EXCEPT ![counter] = 1]

\* self.stats[counter] += 1; nothing is awaited between the read and the write
Bump(s, counter) == [s EXCEPT ![counter] = @ + 1]

\* the coroutine has returned or raised
Finished(t) == task[t].pc \in { "done", "raised" }

\* get() is called: lines 128-136 and 321, up to the SELECT being awaited.
\* The data type is the one the facade passes with the key, its first part.
GetBegin(t, k, f) ==
    /\ task[t].pc = "idle"
    /\ LET s1  == CountRequest(stats)
           hot == HotCacheGet(redis, k, FALSE)
           me  == [task[t] EXCEPT !.key = k, !.data_type = k[1], !.fetch_fn = f]
       IN  IF hot # None
           THEN /\ stats' = Bump(s1, "hot_hits")
                /\ task' = [task EXCEPT ![t] =
                              [me EXCEPT !.pc = "done", !.path = "hot",
                                         !.result = hot]]
           ELSE /\ stats' = s1
                /\ task' = [task EXCEPT ![t] =
                              [me EXCEPT !.pc = "warm_select",
                                         !.replied = FALSE]]
    /\ UNCHANGED << utcnow, redis, db, n_ops, last_op, rlVars, appVars >>

\* the database executes the statement a coroutine awaits: the SELECT by
\* key, the DELETE of the expired record, or the INSERT or UPDATE flushed by
\* commit().  CacheEntry.key is unique: the INSERT of a key the table holds
\* is refused.
DbExecute(t) ==
    /\ task[t].pc \in { "warm_select", "warm_expire", "set_select", "set_commit" }
    /\ ~task[t].replied
    /\ LET k == task[t].key
       IN  CASE task[t].pc \in { "warm_select", "set_select" } ->
                  /\ task' = [task EXCEPT ![t].replied = TRUE, ![t].row = db[k],
                                           ![t].seen_ops = n_ops]
                  /\ db' = db
             [] task[t].pc = "warm_expire" ->
                  /\ task' = [task EXCEPT ![t].replied = TRUE]
                  /\ db' = [db EXCEPT ![k] = NoRow]
             [] task[t].pc = "set_commit" /\ task[t].pending = "insert" ->
                  IF db[k] # NoRow
                  THEN /\ task' = [task EXCEPT ![t].replied = TRUE,
                                               ![t].exc = "IntegrityError"]
                       /\ db' = db
                  ELSE /\ task' = [u \in Tasks |->
                              IF u = t
                              THEN [task[t] EXCEPT !.replied = TRUE,
                                                   !.last_write = TRUE]
                              ELSE IF task[u].key = k
                              THEN [task[u] EXCEPT !.last_write = FALSE]
                              ELSE task[u]]
                       /\ db' = [db EXCEPT ![k] = task[t].new_row]
             [] task[t].pc = "set_commit" /\ task[t].pending = "update" ->
                  IF db[k] = NoRow
                  THEN /\ task' = [task EXCEPT ![t].replied = TRUE,
                                               ![t].exc = "StaleDataError"]
                       /\ db' = db
                  ELSE /\ task' = [u \in Tasks |->
                              IF u = t
                              THEN [task[t] EXCEPT !.replied = TRUE,
                                                   !.last_write = TRUE]
                              ELSE IF task[u].key = k
                              THEN [task[u] EXCEPT !.last_write = FALSE]
                              ELSE task[u]]
                       /\ db' = [db EXCEPT ![k] =
                              [@ EXCEPT !.data = task[t].new_row.data,
                                        !.cached_at = task[t].new_row.cached_at,
                                        !.expires_at = task[t].new_row.expires_at]]
    /\ UNCHANGED << utcnow, redis, stats, n_ops, last_op, rlVars, appVars >>

\* get() after both tiers missed, lines 144-149: absent without fetch_fn,
\* else the cold hit is counted and fetch_fn is awaited
Miss(t) ==
    /\ IF task[t].fetch_fn = NoFetch
       THEN /\ stats' = stats
            /\ task' = [task EXCEPT ![t].pc = "done", ![t].path = "absent",
                                    ![t].result = None]
       ELSE /\ stats' = Bump(stats, "cold_hits")
            /\ task' = [task EXCEPT ![t].pc = "fetch", ![t].path = "cold",
                                    ![t].replied = FALSE]
    /\ redis' = redis

\* the SELECT of _get_from_warm_cache has answered: lines 324-335 and 137-149
WarmResume(t) ==
    /\ task[t].pc = "warm_select"
    /\ task[t].replied
    /\ LET entry == task[t].row
       IN  IF entry = NoRow THEN Miss(t)
           ELSE IF is_expired(entry)
           THEN /\ task' = [task EXCEPT ![t].pc = "warm_expire",
                                        ![t].replied = FALSE]
                /\ UNCHANGED << stats, redis >>
           ELSE /\ stats' = Bump(stats, "warm_hits")
                /\ redis' = HotCacheSet(redis, task[t].key, entry.data,
                                        task[t].data_type, FALSE)
                /\ task' = [task EXCEPT ![t].pc = "done", ![t].path = "warm",
                                        ![t].result = entry.data]
    /\ UNCHANGED << utcnow, db, n_ops, last_op, rlVars, appVars >>

\* the expired record is deleted and committed, lines 331-333: a miss
ExpireResume(t) ==
    /\ task[t].pc = "warm_expire"
    /\ task[t].replied
    /\ Miss(t)
    /\ UNCHANGED << utcnow, db, n_ops, last_op, rlVars, appVars >>

\* fetch_fn has returned or raised: lines 149-152 and 364-373, up to the
\* SELECT of _set_warm_cache being awaited
FetchResume(t) ==
    /\ task[t].pc = "fetch"
    /\ IF task[t].fetch_fn = FetchError
       THEN /\ task' = [task EXCEPT ![t].pc = "raised",
                                    ![t].result = "UpstreamError"]
            /\ redis' = redis
       ELSE /\ redis' = HotCacheSet(redis, task[t].key, task[t].fetch_fn,
                                    task[t].data_type, FALSE)
            /\ task' = [task EXCEPT ![t].pc = "set_select",
                                    ![t].data = task[t].fetch_fn,
                                    ![t].replied = FALSE]
    /\ UNCHANGED << utcnow, db, stats, n_ops, last_op, rlVars, appVars >>

\* the SELECT of _set_warm_cache has answered, lines 374-392: the record is
\* updated or a new one is added, and commit() is awaited
SetSelectResume(t) ==
    /\ task[t].pc = "set_select"
    /\ task[t].replied
    /\ LET k     == task[t].key
           entry == task[t].row
           seen  == [db EXCEPT ![k] = entry]
       IN  task' = [task EXCEPT
              ![t].pc = "set_commit",
              ![t].replied = FALSE,
              ![t].pending = IF entry # NoRow THEN "update" ELSE "insert",
              ![t].new_row = WarmCacheSet(seen, k, task[t].data,
                                          task[t].data_type)[k]]
    /\ UNCHANGED << utcnow, redis, db, stats, n_ops, last_op, rlVars, appVars >>

\* commit() has returned or raised: get() returns the data, line 155, or
\* what the commit raised comes out of it
CommitResume(t) ==
    /\ task[t].pc = "set_commit"
    /\ task[t].replied
    /\ task' = [task EXCEPT
          ![t].pc = IF task[t].exc # None THEN "raised" ELSE "done",
          ![t].result = IF task[t].exc # None THEN task[t].exc
                        ELSE task[t].data]
    /\ UNCHANGED << utcnow, redis, db, stats, n_ops, last_op, rlVars, appVars >>

\* the coroutines of get() calls made together on one manager
TaskNext ==
    \/ \E t \in Tasks, k \in Keys, f \in Fetches : GetBegin(t, k, f)
    \/ \E t \in Tasks : DbExecute(t)
    \/ \E t \in Tasks : WarmResume(t)
    \/ \E t \in Tasks : ExpireResume(t)
    \/ \E t \in Tasks : FetchResume(t)
    \/ \E t \in Tasks : SetSelectResume(t)
    \/ \E t \in Tasks : CommitResume(t)

\* the callers that read and write through a manager whose table answers,
\* the connection to Redis failing or not on each command
CacheNext ==
    \/ \E k \in Keys, t \in DataTypes, f \in Fetches, e1, e2 \in BOOLEAN :
          Get(k, t, f, e1, e2, "none")
    \/ \E k \in Keys, v \in Values, t \in DataTypes, e2 \in BOOLEAN :
          Set(k, v, t, e2)
    \/ \E k \in Keys, e1 \in BOOLEAN : Delete(k, e1)
    \/ ClockAdvance

\* the callers of every operation of a manager; the table may fail during
\* get(), the connection to Redis during delete, clear_by_pattern, get_stats
\* and the construction of a manager
StoreNext ==
    \/ \E k \in Keys, t \in DataTypes, f \in Fetches, de \in DbErrors :
          Get(k, t, f, FALSE, FALSE, de)
    \/ \E k \in Keys, v \in Values, t \in DataTypes : Set(k, v, t, FALSE)
    \/ \E k \in Keys, e1 \in BOOLEAN : Delete(k, e1)
    \/ \E pat \in Patterns, e1 \in BOOLEAN : ClearByPattern(pat, e1)
    \/ \E e1 \in BOOLEAN : GetStats(e1)
    \/ CleanupExpired
    \/ \E instance \in { None, "client" }, down \in BOOLEAN :
          NewManager(instance, down)
    \/ ClockAdvance

\* ------------------------------------------------------ SportsDataIOClient

\* stop=stop_after_attempt(3)
MaxAttempts == 3

\* what the upstream does with client.get: a status, or the transport fails
HttpOutcomes == { "200", "429", "403", "500", "RequestError" }

\* lines 205-228: what _request raises for the answer, None when it returns
Raised(outcome) ==
    CASE outcome = "200" -> None
      [] outcome = "429" -> "SportsDataIORateLimitError"
      [] outcome = "403" -> "SportsDataIOQuotaExceeded"
      [] outcome = "500" -> "SportsDataIOError"
      [] outcome = "RequestError" -> "SportsDataIOError"

\* a retry on whatever the attempt raises
RetryableAnyError(exc) == exc # None

\* retry_if_exception_type((httpx.RequestError, httpx.HTTPStatusError))
Retryable(exc) == exc \in { "httpx.RequestError", "httpx.HTTPStatusError" }

\* no request made yet
NoRequest == [st |-> "idle", attempt |-> 0, http |-> 0, result |-> None]

\* the retry decorator: an attempt of request r has raised exc, or has
\* returned (exc = None)
AfterAttempt(r, exc) ==
    IF exc = None THEN [r EXCEPT !.st = "done", !.result = "ok"]
    ELSE IF ~Retryable(exc) THEN [r EXCEPT !.st = "done", !.result = exc]
    ELSE IF r.attempt >= MaxAttempts
         THEN [r EXCEPT !.st = "done", !.result = "RetryError"]
    ELSE [r EXCEPT !.st = "backoff"]

\* line 202 and what follows it without a suspension: acquire() has left
\* its caller in the given state; when it returns, client.get is sent
AfterAcquire(r, state) ==
    CASE state = "ok"     -> [r EXCEPT !.st = "http", !.http = @ + 1]
      [] state = "raised" -> AfterAttempt(r, "SportsDataIOQuotaExceeded")
      [] OTHER            -> [r EXCEPT !.st = "acquire"]

\* the attempt that starts: the next one of a request that is backing off,
\* or the first of a new request
Attempt(r) ==
    IF r.st = "backoff" THEN [r EXCEPT !.attempt = @ + 1]
    ELSE [NoRequest EXCEPT !.attempt = 1]

\* _request is called by p, or called again by the retry decorator
Request(p) ==
    /\ req[p].st \in {"idle", "backoff", "done"}
    /\ n_calls < MaxRequestCalls
    /\ AcquireCalled(p)
    /\ req' = [req EXCEPT ![p] = AfterAcquire(Attempt(req[p]), pc'[p])]

\* the request of p is handed the limiter's lock
RequestEnter(p) ==
    /\ AcquireEntered(p)
    /\ req' = [req EXCEPT ![p] = AfterAcquire(req[p], pc'[p])]

\* the request of p ends its sleep in acquire()
RequestWake(p) ==
    /\ AcquireWoken(p)
    /\ req' = [req EXCEPT ![p] = AfterAcquire(req[p], pc'[p])]

\* lines 205-228: client.get completes for p
Respond(p, outcome) ==
    /\ req[p].st = "http"
    /\ req' = [req EXCEPT ![p] = AfterAttempt(req[p], Raised(outcome))]
    /\ UNCHANGED << rlVars, cacheVars, facadeVars >>

InitRequests == req = [p \in Procs |-> NoRequest]

\* ---------------------------------------------------------- cache keys
\* A Python str is the sequence of its characters.

\* the characters of the string parts
Chars == { "a", ":" }
\* the integer parts (a week, a season's last digits)
SampleInts == { 8, 24 }

\* the strings of at most n characters
Strings(n) == UNION { [1..m -> Chars] : m \in 0..n }

\* the arguments of build_cache_key: strings and integers
Parts ==
    [kind : {"str"}, s : Strings(MaxPartLen), n : {0}]
       \cup [kind : {"int"}, s : { << >> }, n : SampleInts]

PartLists == UNION { [1..m -> Parts] : m \in 0..MaxParts }

Digit(d) == << "0", "1", "2", "3", "4", "5", "6", "7", "8", "9" >>[d + 1]

\* str(n) of a non-negative int
RECURSIVE Decimal(_)
Decimal(n) ==
    IF n < 10 THEN << Digit(n) >>
    ELSE Decimal(n \div 10) \o << Digit(n % 10) >>

\* str(part)
str(part) == IF part.kind = "int" THEN Decimal(part.n) ELSE part.s

\* sep.join(list)
RECURSIVE join(_, _)
join(sep, list) ==
    IF Len(list) = 0 THEN << >>
    ELSE IF Len(list) = 1 THEN list[1]
    ELSE list[1] \o sep \o join(sep, Tail(list))

\* s.split(sep), sep one character
RECURSIVE split(_, _)
split(s, sep) ==
    IF \A i \in 1..Len(s) : s[i] # sep THEN << s >>
    ELSE LET i == CHOOSE i \in 1..Len(s) :
                      s[i] = sep /\ \A j \in 1..(i - 1) : s[j] # sep
         IN  << SubSeq(s, 1, i - 1) >> \o split(SubSeq(s, i + 1, Len(s)), sep)

\* build_cache_key(*parts)
build_cache_key(parts) ==
    join(<< ":" >>, [i \in 1..Len(parts) |-> str(parts[i])])

\* a parse that returns the key as its only part
parse_cache_key_whole(key) == << key >>

\* parse_cache_key(key)
parse_cache_key(key) == split(key, ":")

NoKeyIo == [stage |-> "args", parts |-> << >>, key |-> << >>, parsed |-> << >>]

\* a caller builds the key of its arguments
BuildKey ==
    /\ key_io.stage = "args"
    /\ key_io' = [key_io EXCEPT !.stage = "built",
                                !.key = build_cache_key(key_io.parts)]
    /\ UNCHANGED << rlVars, cacheVars, req, views, n_view_ops, last_inv >>

\* the key built is parsed
ParseKey ==
    /\ key_io.stage = "built"
    /\ key_io' = [key_io EXCEPT !.stage = "parsed",
                                !.parsed = parse_cache_key(key_io.key)]
    /\ UNCHANGED << rlVars, cacheVars, req, views, n_view_ops, last_inv >>

InitKeyIo == key_io = NoKeyIo

\* ------------------------------------------------ CachedSportsDataIOClient
\* A view is kept under the key of its parts; of each tier the model keeps
\* whether it holds the key.

Seasons == { "2024" }
Weeks == { "8", "9" }
TeamKeys == { "KC" }
PlayerIds == { "P1" }

\* the keys of the methods that take a season and a week: lines 49, 128,
\* 157, 171, 188, 214, 231
WeekViews(season, week) ==
    { << "schedules", "week", season, week >>,
      << "stats", "week", season, week >>,
      << "injuries", "week", season, week >>,
      << "props", "week", season, week >>,
      << "odds", "week", season, week >> }
    \cup { << "injuries", "team", season, week, t >> : t \in TeamKeys }
    \cup { << "props", "player", season, week, x >> : x \in PlayerIds }

ViewKeys == UNION { WeekViews(s, w) : s \in Seasons, w \in Weeks }

\* invalidate_week_data: the list `patterns`, lines 291-297
patterns(season, week) ==
    << << "schedules", "week", season, week >>,
       << "props", "week", season, week >>,
       << "odds", "week", season, week >>,
       << "injuries", "week", season, week >>,
       << "stats", "week", season, week >> >>

NoView == [hot |-> FALSE, warm |-> FALSE]
NoInv == [season |-> None, week |-> None, exc |-> None, n |-> 0]

\* CacheManager.get(key, data_type, fetch_fn) seen from one key: the lookup
\* in Redis, the table, the fetch and the writes.  e: the connection to
\* Redis fails; fetched: the upstream call returns
GetView(v, fetched, e) ==
    LET reply == RedisReply(e, v.hot)
        hit   == reply.exc = None /\ v.hot
        hot_w == IF e THEN v.hot ELSE TRUE
    IN  IF hit THEN v
        ELSE IF v.warm THEN [v EXCEPT !.hot = hot_w]
        ELSE IF fetched THEN [hot |-> hot_w, warm |-> TRUE]
        ELSE v

\* CacheManager.delete(key) seen from the views: what it raises and leaves
DeleteView(vs, k, e) ==
    LET reply == RedisReply(e, vs[k].hot)
        vs1   == IF e THEN vs ELSE [vs EXCEPT ![k].hot = FALSE]
    IN  IF reply.exc # None THEN [exc |-> reply.exc, views |-> vs1]
        ELSE [exc |-> None, views |-> [vs1 EXCEPT ![k].warm = FALSE]]

\* lines 299-300: the loop over the keys, left by the first exception
RECURSIVE DeleteEach(_, _, _)
DeleteEach(vs, keys, e) ==
    IF keys = << >> THEN [exc |-> None, views |-> vs]
    ELSE LET d == DeleteView(vs, Head(keys), e)
         IN  IF d.exc # None THEN d
             ELSE DeleteEach(d.views, Tail(keys), e)

\* one of the get_* methods of a week is called
ViewGet(k, fetched, e) ==
    /\ n_view_ops < MaxViewOps
    /\ views' = [views EXCEPT ![k] = GetView(views[k], fetched, e)]
    /\ n_view_ops' = n_view_ops + 1
    /\ UNCHANGED << rlVars, cacheVars, req, key_io, last_inv >>

\* invalidate_week_data(season, week)
InvalidateWeekData(season, week, e) ==
    /\ n_view_ops < MaxViewOps
    /\ LET d == DeleteEach(views, patterns(season, week), e)
       IN  /\ views' = d.views
           /\ last_inv' = [season |-> season, week |-> week, exc |-> d.exc,
                           n |-> n_view_ops + 1]
    /\ n_view_ops' = n_view_ops + 1
    /\ UNCHANGED << rlVars, cacheVars, req, key_io >>

InitViews ==
    /\ views = [k \in ViewKeys |-> NoView]
    /\ n_view_ops = 0
    /\ last_inv = NoInv

\* nothing requested, built or viewed yet
InitApp == InitRequests /\ InitKeyIo /\ InitViews

\* RateLimiter.__init__, lines 43-55, with one of the given parameters
InitLimiterWith(configs) ==
    /\ now = 0
    /\ month = 0
    /\ \E c \in configs :
          /\ requests_per_second = c[1]
          /\ burst_size = c[2]
          /\ requests_per_month = c[3]
    /\ tokens = burst_size * TicksPerSecond
    /\ last_update = now
    /\ monthly_requests = 0
    /\ month_start = MonthStamp
    /\ lock_locked = FALSE
    /\ lock_waiters = << >>
    /\ pc = [p \in Procs |-> "idle"]
    /\ wake_at = [p \in Procs |-> 0]
    /\ n_calls = 0
    /\ n_admitted = 0
    /\ hold_t0 = 0
    /\ last_done = NoCall
    /\ passed_in_month = 0
    /\ ok_hist = [last |-> 0, excess |-> 0]

\* RateLimiter.__init__, lines 43-55
InitLimiter == InitLimiterWith(LimiterConfigs)

\* a manager built when the seeded record is fresh or has expired
TaskInit ==
    /\ InitLimiter
    /\ burst_size = 5
    /\ utcnow \in { 0, MaxClockSteps * ClockStep }
    /\ redis = [k \in Keys |-> NoEntry]
    /\ db \in SeedTables
    /\ stats = [hot_hits |-> 0, warm_hits |-> 0, cold_hits |-> 0,
                total_requests |-> 0]
    /\ n_ops = 0
    /\ last_op = NoOp
    /\ task = [t \in Tasks |-> IdleTask]
    /\ InitApp

\* the limiter is run beside a manager over an empty table
Init == InitLimiter /\ InitCache /\ db = [k \in Keys |-> NoRow] /\ InitApp

\* the cache is run beside one limiter, built with the default burst
CacheInit == InitLimiter /\ InitCache /\ burst_size = 5 /\ InitApp

Next ==
    \/ \E p \in Procs : Call(p)
    \/ \E p \in Procs : Enter(p)
    \/ \E p \in Procs : Wake(p)
    \/ Tick
    \/ MonthRollover

\* the RateLimiter and its callers
Spec == Init /\ [][Next]_vars

\* acquire() is called, one of the few calls of a run with cancellations
EarlyCall(p) == n_calls < MaxCancelCalls /\ Call(p)

CancelNext ==
    \/ \E p \in Procs : EarlyCall(p)
    \/ \E p \in Procs : Enter(p)
    \/ \E p \in Procs : Wake(p)
    \/ \E p \in Procs : Cancel(p)
    \/ Tick
    \/ MonthRollover

\* acquire() is called while the clock has not passed MaxTime
TimelyCall(p) == now <= MaxTime /\ EarlyCall(p)

\* time passes once the event loop has run what was due
PromptTick == ~AnyDue /\ Tick
PromptRollover == ~AnyDue /\ MonthRollover

LiveNext ==
    \/ \E p \in Procs : TimelyCall(p)
    \/ \E p \in Procs : Enter(p)
    \/ \E p \in Procs : Wake(p)
    \/ PromptTick
    \/ LateTick
    \/ PromptRollover

\* limiters with a bucket of some capacity and one with a bucket of none
LiveConfigs == LimiterConfigs \cup { <<1, 0, 2>> }

LiveInit ==
    /\ InitLimiterWith(LiveConfigs)
    /\ InitCache
    /\ db = [k \in Keys |-> NoRow]
    /\ InitApp

\* the event loop: time passes, a timer that is due fires, and the lock,
\* once released, goes to the caller at the head of its queue
LiveSpec ==
    /\ LiveInit
    /\ [][LiveNext]_vars
    /\ WF_vars(PromptTick)
    /\ WF_vars(LateTick)
    /\ \A p \in Procs : WF_vars(Wake(p)) /\ WF_vars(Enter(p))

\* RateLimiter(1, 2, burst_size=1), run beside a manager over an empty table
CancelInit == Init /\ burst_size = 1

\* the RateLimiter and callers whose tasks may be cancelled while they sleep
CancelSpec == CancelInit /\ [][CancelNext]_vars

\* one client with a monthly quota of two requests
RequestInit == Init /\ requests_per_month = 2

RequestNext ==
    \/ \E p \in Procs : Request(p)
    \/ \E p \in Procs : RequestEnter(p)
    \/ \E p \in Procs : RequestWake(p)
    \/ \E p \in Procs, outcome \in HttpOutcomes : Respond(p, outcome)
    \/ Tick
    \/ MonthRollover

\* SportsDataIOClient._request over its RateLimiter
RequestSpec == RequestInit /\ [][RequestNext]_vars

\* build_cache_key is called with some arguments
KeyInit ==
    /\ InitLimiter
    /\ burst_size = 5
    /\ InitCache
    /\ db = [k \in Keys |-> NoRow]
    /\ InitRequests
    /\ InitViews
    /\ key_io \in [stage : {"args"}, parts : PartLists, key : { << >> },
                  parsed : { << >> }]

KeyNext == BuildKey \/ ParseKey

\* the cache keys built and parsed
KeySpec == KeyInit /\ [][KeyNext]_vars

ViewNext ==
    \/ \E k \in ViewKeys, fetched, e \in BOOLEAN : ViewGet(k, fetched, e)
    \/ \E s \in Seasons, w \in Weeks, e \in BOOLEAN :
          InvalidateWeekData(s, w, e)

\* a facade over empty tiers
ViewInit == CacheInit /\ db = [k \in Keys |-> NoRow]

\* the facade over the cache and its callers
ViewSpec == ViewInit /\ [][ViewNext]_vars

\* get() coroutines and delete() calls made together on one manager
RaceNext ==
    \/ \E t \in Tasks, k \in Keys, f \in Fetches : GetBegin(t, k, f)
    \/ \E t \in Tasks : DbExecute(t)
    \/ \E t \in Tasks : WarmResume(t)
    \/ \E t \in Tasks : ExpireResume(t)
    \/ \E t \in Tasks : FetchResume(t)
    \/ \E t \in Tasks : SetSelectResume(t)
    \/ \E t \in Tasks : CommitResume(t)
    \/ \E k \in Keys, e1 \in BOOLEAN : Delete(k, e1)

\* get() coroutines interleaving with delete() on one CacheManager
RaceSpec == TaskInit /\ [][RaceNext]_vars

\* the CacheManager and its callers
CacheSpec == CacheInit /\ [][CacheNext]_vars

\* get() coroutines interleaving on one CacheManager
TaskSpec == TaskInit /\ [][TaskNext]_vars

\* the CacheManager, all its operations, and a table that may fail
StoreSpec == CacheInit /\ [][StoreNext]_vars

\* ------------------------------------------------------ RateLimiter claims

\* C1: in every reachable state monthly_requests is at most
\* requests_per_month, whatever the interleaving of acquire() calls and the
\* advance of time; a call made at the quota is rejected.
C1_MonthlyWithinQuota == monthly_requests <= requests_per_month

C1_Witness ==
    /\ monthly_requests = requests_per_month
    /\ last_done.res = "raised"

\* C2: the number of acquire() calls that pass the quota check within one
\* calendar month never exceeds requests_per_month.
C2_QuotaPerCalendarMonth == passed_in_month <= requests_per_month

\* C3: 0 <= tokens <= burst_size in every reachable state, also after an
\* acquirer that waited in the refill loop has consumed its token.
C3_TokensInRange ==
    /\ 0 <= tokens
    /\ tokens <= burst_size * TicksPerSecond

C3_Witness ==
    /\ last_done.res = "ok"
    /\ last_done.slept
    /\ tokens < TicksPerSecond
    /\ \E p \in Procs : pc[p] = "waitlock"

\* C4: while a caller holds the lock suspended in the wait loop, no other
\* caller runs any part of acquire(): the others only queue for the lock, and
\* the limiter's fields change by the holder's own step alone.
C4_Serialized ==
    [][ \A p \in Procs : pc[p] = "sleeping" =>
          /\ \A q \in Procs \ {p} : pc'[q] = pc[q] \/ pc'[q] = "waitlock"
          /\ n_admitted' = n_admitted
          /\ month_start' = month_start
          /\ pc'[p] = "sleeping" =>
                tokens' >= tokens /\ monthly_requests' = monthly_requests
          /\ pc'[p] # "sleeping" =>
                /\ pc'[p] = "ok"
                /\ monthly_requests' = monthly_requests + 1
                /\ lock_locked /\ ~lock_locked' ]_vars

C4_Witness ==
    \E p, q \in Procs : pc[p] = "sleeping" /\ pc[q] = "waitlock" /\ now > hold_t0

\* C5: from a fresh limiter with requests_per_month > burst_size, within one
\* calendar month: the first burst_size calls succeed without suspending, the
\* next call made back-to-back suspends for at least 1/requests_per_second
\* and succeeds, and the (requests_per_month + 1)-th call is rejected.
C5_BurstThenWaitThenQuota ==
    (requests_per_month > burst_size /\ last_done.m = 0) =>
       /\ last_done.no \in 1..burst_size =>
             last_done.res = "ok" /\ ~last_done.slept
       /\ (last_done.no = burst_size + 1 /\ last_done.t0 = 0) =>
             /\ last_done.res = "ok"
             /\ last_done.slept
             /\ last_done.dt * requests_per_second >= TicksPerSecond
       /\ last_done.no = requests_per_month + 1 => last_done.res = "raised"

\* the first two parts of C5 alone
C5_BurstThenWait ==
    (requests_per_month > burst_size /\ last_done.m = 0) =>
       /\ last_done.no \in 1..burst_size =>
             last_done.res = "ok" /\ ~last_done.slept
       /\ (last_done.no = burst_size + 1 /\ last_done.t0 = 0) =>
             /\ last_done.res = "ok"
             /\ last_done.slept
             /\ last_done.dt * requests_per_second >= TicksPerSecond

\* ----------------------------------------------------- CacheManager claims

\* this step is a get(); its key, data type and fetch_fn
GetStep == n_ops' = n_ops + 1 /\ last_op'.op = "get"

\* C6: a get() that finds the key in the fast tier returns that value as a
\* hot hit and touches nothing else: the table is left alone, fetch_fn is
\* not invoked, warm_hits and cold_hits stay.
C6_HotHitShortCircuits ==
    [][ (/\ GetStep
         /\ ~last_op'.lookup_failed
         /\ RedisGet(redis, last_op'.key) # Nil) =>
            /\ last_op'.path = "hot"
            /\ last_op'.result = json_loads(RedisGet(redis, last_op'.key))
            /\ ~last_op'.fetched
            /\ stats' = [stats EXCEPT !.total_requests = @ + 1, !.hot_hits = @ + 1]
            /\ db' = db ]_vars

\* C7: a record of the table whose expires_at is in the past is never
\* returned: a get() that misses the fast tier, the table answering without
\* error, removes it, counts no warm
\* hit, promotes nothing, and goes on as a full miss (fetch_fn invoked when
\* supplied, absent otherwise).
C7_ExpiredNeverReturned ==
    [][ (/\ GetStep
         /\ last_op'.path # "hot"
         /\ last_op'.db_error = "none"
         /\ db[last_op'.key] # NoRow
         /\ utcnow > db[last_op'.key].expires_at) =>
            LET k == last_op'.key
                f == last_op'.arg
            IN  /\ last_op'.path # "warm"
                /\ stats'.warm_hits = stats.warm_hits
                /\ last_op'.fetched = (f # NoFetch)
                /\ f = NoFetch =>
                      /\ last_op'.result = None
                      /\ db' = [db EXCEPT ![k] = NoRow]
                      /\ redis' = redis
                /\ f = FetchError =>
                      /\ last_op'.path = "raised"
                      /\ db' = [db EXCEPT ![k] = NoRow]
                      /\ redis' = redis
                /\ f \in Values =>
                      /\ last_op'.path = "cold"
                      /\ last_op'.result = f
                      /\ db'[k].data = f
                      /\ db'[k].expires_at > utcnow
                      /\ redis'[k] \in {redis[k],
                            [val |-> json_dumps(f),
                             exp |-> utcnow + HOT_TTL[last_op'.data_type]]} ]_vars

C7_Witness ==
    /\ last_op.op = "get"
    /\ last_op.db_error = "none"
    /\ last_op.warm_was = "expired"
    /\ last_op.path = "absent"
    /\ db[last_op.key] = NoRow

\* C8: a get() that finds the fast tier unavailable and a fresh record in
\* the table returns the record as a warm hit and its promotion writes
\* through: the next get() of the key, the fast tier being available, is a
\* hot hit that leaves the table alone.
C8_PromotionWritesThrough ==
    [][ (/\ last_op.op = "get"
         /\ last_op.lookup_failed
         /\ ~last_op.write_failed
         /\ last_op.warm_was = "fresh"
         /\ GetStep
         /\ ~last_op'.lookup_failed
         /\ last_op'.key = last_op.key
         /\ last_op'.data_type = last_op.data_type) =>
            /\ last_op.path = "warm"
            /\ last_op'.path = "hot"
            /\ last_op'.result = last_op.result
            /\ stats'.hot_hits = stats.hot_hits + 1
            /\ db' = db ]_vars

\* C9: set(k, v, t) followed at once by get(k, t) returns v as a hot hit:
\* hot_hits is incremented, warm_hits and cold_hits are not, and fetch_fn is
\* not invoked.
C9_SetThenGetIsHotHit ==
    [][ (/\ last_op.op = "set"
         /\ ~last_op.write_failed
         /\ GetStep
         /\ ~last_op'.lookup_failed
         /\ last_op'.key = last_op.key
         /\ last_op'.data_type = last_op.data_type) =>
            /\ last_op'.result = last_op.arg
            /\ last_op'.path = "hot"
            /\ ~last_op'.fetched
            /\ stats' = [stats EXCEPT !.total_requests = @ + 1,
                                      !.hot_hits = @ + 1] ]_vars

\* C10: get(k, t) without fetch_fn, for a key held by neither tier, the
\* table answering without error, returns absent, adds one to total_requests, and leaves the other counters and
\* both tiers as they were.
C10_AbsentWithoutFetch ==
    [][ (/\ GetStep
         /\ last_op'.arg = NoFetch
         /\ last_op'.db_error = "none"
         /\ db[last_op'.key] = NoRow
         /\ RedisGet(redis, last_op'.key) = Nil) =>
            /\ last_op'.result = None
            /\ last_op'.path = "absent"
            /\ stats' = [stats EXCEPT !.total_requests = @ + 1]
            /\ db' = db
            /\ redis' = redis ]_vars

C10_Witness ==
    /\ last_op.op = "get"
    /\ last_op.db_error = "none"
    /\ last_op.arg = NoFetch
    /\ ~last_op.hot_was
    /\ last_op.warm_was = "none"
    /\ last_op.result = None
    /\ stats.total_requests = 1
    /\ stats.hot_hits + stats.warm_hits + stats.cold_hits = 0

\* C11: an error of Redis during get(), on the lookup or on a write, never
\* reaches the caller and never stops the cascade: a failed lookup counts as
\* a miss of the fast tier, so the table is consulted and then fetch_fn; a
\* failed write still lets get() return the value and, after a fetch, still
\* writes the table.
C11_FastTierErrorsAbsorbed ==
    [][ (/\ GetStep
         /\ last_op'.db_error = "none"
         /\ (last_op'.lookup_failed \/ last_op'.write_failed)) =>
            LET k == last_op'.key
                f == last_op'.arg
                fresh == db[k] # NoRow /\ ~is_expired(db[k])
            IN  /\ last_op'.result \notin {"ConnectionError", "TypeError"}
                /\ last_op'.lookup_failed =>
                      /\ last_op'.path # "hot"
                      /\ fresh => /\ last_op'.path = "warm"
                                  /\ last_op'.result = db[k].data
                      /\ (~fresh /\ f \in Values) =>
                                  /\ last_op'.path = "cold"
                                  /\ last_op'.result = f
                      /\ (~fresh /\ f = NoFetch) => last_op'.path = "absent"
                      /\ (~fresh /\ f = FetchError) =>
                                  last_op'.result = "UpstreamError"
                /\ (last_op'.write_failed /\ last_op'.path = "warm") =>
                      /\ last_op'.result = db[k].data
                      /\ redis' = redis
                /\ (last_op'.write_failed /\ last_op'.path = "cold") =>
                      /\ last_op'.result = f
                      /\ redis' = redis
                      /\ db'[k] # NoRow
                      /\ db'[k].data = f ]_vars

C11_Witness ==
    /\ last_op.op = "get"
    /\ last_op.lookup_failed
    /\ last_op.write_failed
    /\ last_op.hot_was
    /\ last_op.path = "cold"
    /\ db[last_op.key] # NoRow
    /\ db[last_op.key].data = last_op.result

\* this step is the operation op of the manager
OpStep(op) == n_ops' = n_ops + 1 /\ last_op'.op = op

\* C12: a failure of Redis during delete, clear_by_pattern or get_stats is
\* absorbed: the operation does not raise, delete still removes the record
\* of the table, clear_by_pattern still removes the matching records of the
\* table and counts them.
C12_FastTierFailureAbsorbed ==
    [][ (/\ (OpStep("delete") \/ OpStep("clear") \/ OpStep("get_stats"))
         /\ last_op'.lookup_failed) =>
            /\ last_op'.path # "raised"
            /\ OpStep("delete") => db'[last_op'.key] = NoRow
            /\ OpStep("clear") =>
                  LET hit == { k \in Keys : /\ db[k] # NoRow
                                            /\ Matches(last_op'.arg, k) }
                  IN  /\ \A k \in hit : db'[k] = NoRow
                      /\ last_op'.count = Cardinality(hit) ]_vars

\* C13: during get(), an error of the table or of fetch_fn reaches the
\* caller as it was raised, never swallowed and never turned into absent;
\* when fetch_fn fails, get() writes the key to neither tier.
C13_StoreAndFetchErrorsPropagate ==
    [][ (GetStep /\ last_op'.path # "hot") =>
            LET k == last_op'.key
                f == last_op'.arg
            IN  /\ last_op'.db_error = "read" =>
                      /\ last_op'.result = "PersistentTierError"
                      /\ last_op'.path = "raised"
                      /\ ~last_op'.fetched
                      /\ redis' = redis
                      /\ db' = db
                /\ (last_op'.db_error # "read" /\ last_op'.fetched
                    /\ f = FetchError) =>
                      /\ last_op'.result = "UpstreamError"
                      /\ last_op'.path = "raised"
                      /\ redis' = redis
                      /\ db'[k] \in { db[k], NoRow }
                      /\ db'[k] = NoRow => db[k] = NoRow \/ is_expired(db[k])
                      /\ \A j \in Keys \ {k} : db'[j] = db[j]
                /\ (last_op'.db_error = "write" /\ last_op'.fetched
                    /\ f \in Values) =>
                      /\ last_op'.result = "PersistentTierError"
                      /\ last_op'.path = "raised"
                      /\ db'[k] \in { db[k], NoRow } ]_vars

C13_Witness ==
    /\ last_op.op = "get"
    /\ last_op.arg = FetchError
    /\ last_op.fetched
    /\ last_op.warm_was = "expired"
    /\ last_op.result = "UpstreamError"
    /\ redis[last_op.key] = NoEntry
    /\ db[last_op.key] = NoRow

\* C14: a manager can be built while Redis is down.
C14_BuiltWhileRedisDown ==
    [][ (OpStep("init") /\ last_op'.lookup_failed) =>
            last_op'.path = "built" ]_vars

\* C15: delete(k), Redis answering, returns and leaves k in neither tier;
\* the entries under every other key are as they were in both tiers.
C15_DeleteRemovesBothTiers ==
    [][ (OpStep("delete") /\ ~last_op'.lookup_failed) =>
            LET k == last_op'.key
            IN  /\ last_op'.path # "raised"
                /\ redis'[k] = NoEntry
                /\ db'[k] = NoRow
                /\ \A j \in Keys \ {k} : redis'[j] = redis[j] /\ db'[j] = db[j]
       ]_vars

\* C16: clear_by_pattern("P*"), Redis answering, removes from both tiers
\* every key that starts with P, leaves every other key as it was in both
\* tiers, and returns the number of keys removed from Redis plus the number
\* of records removed from the table.
C16_ClearByPatternRemovesPrefix ==
    [][ (OpStep("clear") /\ ~last_op'.lookup_failed) =>
            LET pat == last_op'.arg
            IN  /\ last_op'.path # "raised"
                /\ \A k \in Keys :
                      IF Matches(pat, k)
                      THEN redis'[k] = NoEntry /\ db'[k] = NoRow
                      ELSE redis'[k] = redis[k] /\ db'[k] = db[k]
                /\ last_op'.count =
                      Cardinality({ k \in Keys : /\ Matches(pat, k)
                                                 /\ RedisGet(redis, k) # Nil })
                      + Cardinality({ k \in Keys : /\ Matches(pat, k)
                                                   /\ db[k] # NoRow }) ]_vars

\* C17: cleanup_expired() deletes exactly the records of the table with
\* expires_at < now and returns their number; the records with
\* expires_at >= now, Redis and the counters are left as they were.
C17_CleanupExpiredExact ==
    [][ OpStep("cleanup_expired") =>
            /\ \A k \in Keys :
                  IF db[k] # NoRow /\ db[k].expires_at < utcnow
                  THEN db'[k] = NoRow
                  ELSE db'[k] = db[k]
            /\ last_op'.count =
                  Cardinality({ k \in Keys : /\ db[k] # NoRow
                                             /\ db[k].expires_at < utcnow })
            /\ redis' = redis
            /\ stats' = stats ]_vars

C17_Witness ==
    /\ last_op.op = "cleanup_expired"
    /\ last_op.count = 1
    /\ \E k \in Keys : db[k] # NoRow /\ db[k].expires_at >= utcnow

\* C18: every get() adds exactly one to total_requests whatever its
\* outcome, an error of the table or of fetch_fn included; set, delete,
\* clear_by_pattern, cleanup_expired and get_stats leave total_requests as
\* it was.
C18_TotalRequestsCountsGets ==
    [][ /\ GetStep => stats'.total_requests = stats.total_requests + 1
        /\ (OpStep("set") \/ OpStep("delete") \/ OpStep("clear")
            \/ OpStep("cleanup_expired") \/ OpStep("get_stats")) =>
              stats'.total_requests = stats.total_requests ]_vars

C18_Witness ==
    /\ last_op.op = "get"
    /\ last_op.result = "PersistentTierError"
    /\ last_op.db_error = "write"
    /\ stats.total_requests = 2
    /\ stats.cold_hits = 2

\* C19: two get() calls for one key that interleave and both miss both
\* tiers both invoke fetch_fn, both return the value they fetched without
\* error, and the table ends with one record for the key, holding the value
\* written last.
C19_ConcurrentMissesBothComplete ==
    \A t, u \in Tasks :
        (/\ t # u
         /\ task[t].key = task[u].key
         /\ task[t].path = "cold" /\ task[u].path = "cold"
         /\ task[t].fetch_fn \in Values /\ task[u].fetch_fn \in Values
         /\ Finished(t) /\ Finished(u)) =>
            /\ task[t].pc = "done" /\ task[t].result = task[t].fetch_fn
            /\ task[u].pc = "done" /\ task[u].result = task[u].fetch_fn
            /\ db[task[t].key] # NoRow
            /\ \E w \in {t, u} : /\ task[w].last_write
                                 /\ db[task[t].key].data = task[w].fetch_fn

\* C20: no increment of the counters is lost: once all the get() calls made
\* together have completed, total_requests has grown by their number, and
\* hot_hits, warm_hits and cold_hits each by the number of calls that took
\* that path.
C20_NoLostIncrements ==
    (\A t \in Tasks : Finished(t)) =>
        /\ stats.total_requests = NumTasks
        /\ stats.hot_hits = Cardinality({ t \in Tasks : task[t].path = "hot" })
        /\ stats.warm_hits = Cardinality({ t \in Tasks : task[t].path = "warm" })
        /\ stats.cold_hits = Cardinality({ t \in Tasks : task[t].path = "cold" })

C20_Witness ==
    /\ \A t \in Tasks : Finished(t)
    /\ \E t \in Tasks : task[t].result = "IntegrityError"
    /\ \E t \in Tasks : task[t].path = "cold" /\ task[t].pc = "done"
    /\ stats.cold_hits >= 2

\* ------------------------------------------------ RateLimiter, continued

\* C24: monthly_requests is reset exactly when the calendar month changes:
\* an acquire() admitted in the calendar month of month_start leaves
\* month_start alone and resets nothing, whatever the sub-second part of the
\* clock; one admitted in a later month resets the counter and advances
\* month_start before the quota check, so it is not rejected.
C24_ResetExactlyOnMonthChange ==
    [][ (n_admitted' = n_admitted + 1) =>
            /\ month = month_start.m =>
                  /\ month_start' = month_start
                  /\ monthly_requests' \in
                        { monthly_requests, monthly_requests + 1 }
            /\ month > month_start.m =>
                  /\ month_start'.m = month
                  /\ monthly_requests' \in { 0, 1 }
                  /\ \A p \in Procs : pc'[p] = "raised" => pc[p] = "raised"
       ]_vars

\* C28: the bucket enforces the per-second ceiling: in any interval of T
\* seconds, whatever the interleaving of the callers, at most
\* burst_size + T * requests_per_second calls of acquire() return; at most
\* burst_size of them with no time between them.  (The returns in an
\* interval exceed what the rate yields in its length by at most burst_size.)
C28_PerSecondCeiling ==
    ok_hist.excess <= burst_size * TicksPerSecond

C28_Witness ==
    /\ ok_hist.excess = burst_size * TicksPerSecond
    /\ ok_hist.last > 0
    /\ n_admitted > burst_size + 1
    /\ \E p \in Procs : pc[p] = "waitlock"

\* C29: an acquire() that does not succeed leaves nothing behind: when it
\* raises the quota error, or is cancelled while it sleeps for a token, it
\* consumes no token, does not count in monthly_requests, and the lock is
\* free afterwards.
C29_FailedAcquireHasNoEffect ==
    [][ /\ (/\ n_admitted' = n_admitted + 1
            /\ last_done'.no = n_admitted'
            /\ last_done'.res = "raised") =>
               /\ tokens' = tokens
               /\ monthly_requests' = monthly_requests
               /\ ~lock_locked'
        /\ \A p \in Procs :
              (pc[p] = "sleeping" /\ pc'[p] = "cancelled") =>
                 /\ tokens' = tokens
                 /\ monthly_requests' = monthly_requests
                 /\ ~lock_locked'
                 /\ lock_waiters' = lock_waiters ]_vars

C29_Witness ==
    \E p, q \in Procs :
        /\ pc[p] = "cancelled"
        /\ pc[q] = "ok"
        /\ last_done.res = "ok"
        /\ last_done.slept
        /\ monthly_requests = n_admitted - 1

\* a caller suspended in acquire(), and one whose call has completed
Suspended(p) == pc[p] \in {"waitlock", "sleeping"}
Completed(p) == pc[p] \in {"ok", "raised"}

QuotaRaised(p) ==
    /\ pc'[p] = "raised"
    /\ n_admitted' # n_admitted
    /\ last_done'.res = "raised"
    /\ pc[p] # "raised" \/ n_calls' # n_calls

\* C21: when acquire() raises the quota error inside a request, the request
\* ends there: no HTTP call is sent in that attempt, the retry logic starts
\* no further attempt (so acquire() is not called again for the request),
\* and the caller receives SportsDataIOQuotaExceeded, which is not the
\* generic SportsDataIOError of an upstream failure.
C21_QuotaExceededIsFatal ==
    [][\A p \in Procs :
          QuotaRaised(p) =>
             /\ req'[p].st = "done"
             /\ req'[p].result = "SportsDataIOQuotaExceeded"
             /\ req'[p].result # Raised("500")
             /\ req'[p].http = req'[p].attempt - 1
             /\ req'[p].attempt = 1]_vars

\* a request has ended at its first attempt with the quota error raised by
\* acquire(), no HTTP call sent, the month's quota being used up
C21_Witness ==
    \E p \in Procs :
       /\ pc[p] = "raised"
       /\ req[p] = [st |-> "done", attempt |-> 1, http |-> 0,
                    result |-> "SportsDataIOQuotaExceeded"]
       /\ monthly_requests = requests_per_month

\* -------------------------------------------------------------- cache keys

\* the string forms of the arguments, in order
Strs(parts) == [i \in 1..Len(parts) |-> str(parts[i])]

HasDelimiter(s) == \E i \in 1..Len(s) : s[i] = ":"

\* C22 as stated: for every ordered list of parts, parsing the key built
\* from it yields the string forms of the parts, in order.
C22_ParseInvertsBuild ==
    key_io.stage = "parsed" => key_io.parsed = Strs(key_io.parts)

\* C22: for every non-empty ordered list of parts whose string forms hold no
\* ":", parsing the key built from it yields the string forms of the parts,
\* in order.
C22_ParseInvertsBuildOfPlainParts ==
    ( /\ key_io.stage = "parsed"
      /\ Len(key_io.parts) >= 1
      /\ \A i \in 1..Len(key_io.parts) : ~HasDelimiter(str(key_io.parts[i])) )
    => key_io.parsed = Strs(key_io.parts)

\* a key of a string and an integer has been built and parsed back
C22_Witness ==
    /\ key_io.stage = "parsed"
    /\ Len(key_io.parts) = 2
    /\ key_io.parts[1].kind = "str" /\ key_io.parts[1].s = << "a" >>
    /\ key_io.parts[2].kind = "int" /\ key_io.parts[2].n = 24
    /\ key_io.key = << "a", ":", "2", "4" >>
    /\ key_io.parsed = << << "a" >>, << "2", "4" >> >>

\* ------------------------------------------------ CachedSportsDataIOClient

\* C23: once invalidate_week_data(season, week) has run, every view cached
\* for that week (schedules, stats, odds, injuries by week and by team,
\* props by week and by player) is absent from both tiers.
C23_WeekInvalidated ==
    (last_inv # NoInv /\ last_inv.n = n_view_ops) =>
       \A k \in WeekViews(last_inv.season, last_inv.week) :
          ~views[k].hot /\ ~views[k].warm

\* ------------------------------------------------ CacheManager, continued

\* C25: a get() whose fetch_fn raises does not increase cold_hits (the fetch
\* comes first, the increment afterwards).
C25_FailedFetchNotCounted ==
    [][ (OpStep("get") /\ last_op'.result = "UpstreamError")
        => stats'.cold_hits = stats.cold_hits ]_vars

\* this step has written an entry for k in the fast tier
HotWritten(k) == redis'[k] # NoEntry /\ redis'[k] # redis[k]

\* C26 as stated: whenever get (cold path or promotion) or set writes a
\* fast-tier entry for k, the entry expires no later than the record of k in
\* the table.
C26_FastEntryWithinRecord ==
    [][ \A k \in Keys :
           HotWritten(k) =>
              db'[k] # NoRow /\ redis'[k].exp <= db'[k].expires_at ]_vars

\* C26: the persistent duration of every data type is at least its fast
\* duration, and whenever set, or get on its cold path, writes both tiers
\* for k, the fast-tier entry expires no later than the record of k in the
\* table.  (A promotion gives the entry the full fast duration from the
\* time of the promotion, whatever is left of the record's.)
C26_FastEntryWithinRecordWrittenWithIt ==
    [][ /\ \A t \in DOMAIN HOT_TTL : WARM_TTL[t] >= HOT_TTL[t]
        /\ \A k \in Keys :
              ( /\ HotWritten(k)
                /\ OpStep("set") \/ (OpStep("get") /\ last_op'.path = "cold")
                /\ last_op'.key = k )
              => db'[k] # NoRow /\ redis'[k].exp <= db'[k].expires_at ]_vars

\* a get() has just filled both tiers from upstream
C26_Witness ==
    \E k \in Keys :
       /\ last_op.op = "get" /\ last_op.path = "cold" /\ last_op.key = k
       /\ redis[k] # NoEntry /\ db[k] # NoRow
       /\ redis[k].exp = utcnow + HOT_TTL[last_op.data_type]
       /\ db[k].expires_at = utcnow + WARM_TTL[last_op.data_type]
       /\ redis[k].exp < db[k].expires_at

\* C30: a get(k) that read the record of k before a delete(k) and finishes
\* its promotion after it does not put k back into the fast tier.
C30_DeleteNotUndone ==
    [][ \A t \in Tasks :
           ( /\ task[t].pc = "warm_select"
             /\ task'[t].pc = "done" /\ task'[t].path = "warm"
             /\ task[t].seen_ops < n_ops
             /\ last_op.op = "delete" /\ last_op.key = task[t].key )
           => redis'[task[t].key] = NoEntry ]_vars

====
